---- MODULE Spec2Model ----
(***************************************************************************)
(* A model of the reader web application (src/app.py, src/init_db.py):     *)
(* the relational store (users, series, chapters, bookmarks), the asset    *)
(* files on disk, the session, and the route handlers.                     *)
(*                                                                         *)
(* Conventions                                                             *)
(*  - An uploaded file name is a sequence of characters, each a           *)
(*    one-character string; "sup2" stands for the one character U+00B2     *)
(*    (superscript two).                                                   *)
(*  - A path (a stored image_path / cover_path, a path on disk) is the     *)
(*    sequence of its segments, split at the path separators; a leading    *)
(*    empty segment "" stands for a leading separator ("/static/x" is      *)
(*    <<"", "static", "x">>).  Separators are those of the platform the    *)
(*    code normalises for (os.path.normcase, the "\\" handling): both "/"  *)
(*    and "\\" separate.  Segments are lower-case, so normcase leaves      *)
(*    them as they are.                                                    *)
(*  - A slug is the sequence of its separator-free pieces; a slug without  *)
(*    a separator is a one-element sequence.                               *)
(*  - A URL path is the sequence of its tokens: each "/" is one token and  *)
(*    each maximal run of other characters is one token.                   *)
(*  - The AUTOINCREMENT id of chapters and bookmarks rows is read by no    *)
(*    handler; these tables are bags of rows without it.                   *)
(***************************************************************************)
EXTENDS Integers, Sequences, FiniteSets, Bags, TLC

\* ------------------------------------------------------------- bounds
\* Concurrent requests in flight.
NumProcs == 2
\* Page rows the chapters table may hold before upload_chapter is disabled.
MaxRows == 3
\* Length of the stem of an uploaded file name in the sorting specification.
MaxStem == 2

\* ---------------------------------------------------------- characters
Digits == <<"0", "1", "2", "3", "4", "5", "6", "7", "8", "9">>

\* The character U+00B2, superscript two: a digit to str.isdigit(), but no
\* decimal digit, so the pattern \d does not match it and int() rejects it.
SuperscriptTwo == "sup2"

\* What the pattern \d matches and int() accepts: a decimal digit.
IsDecimalChar(c) == \E i \in 1..Len(Digits) : Digits[i] = c

\* str.isdigit() on one character.
IsDigitChar(c) == IsDecimalChar(c) \/ c = SuperscriptTwo

DigitVal(c) == (CHOOSE i \in 1..Len(Digits) : Digits[i] = c) - 1

\* str.lower() on one character of the model's alphabet.
LowerChar(c) ==
    CASE c = "P" -> "p"
      [] c = "N" -> "n"
      [] c = "G" -> "g"
      [] c = "I" -> "i"
      [] c = "F" -> "f"
      [] c = "A" -> "a"
      [] OTHER -> c

\* Code point order of the characters file names are built from.
CharOrder == <<".", "/", "0", "1", "2", "3", "4", "5", "6", "7", "8", "9",
               "A", "F", "G", "I", "N", "P", "\\", "_",
               "a", "b", "e", "f", "g", "i", "j", "m", "n", "p", "t", "v",
               "w", "x", SuperscriptTwo>>

Ord(c) == CHOOSE i \in 1..Len(CharOrder) : CharOrder[i] = c

Lower(s) == [i \in 1..Len(s) |-> LowerChar(s[i])]

RECURSIVE Str(_)
\* The string a character sequence spells.
Str(s) == IF s = <<>> THEN "" ELSE Head(s) \o Str(Tail(s))

\* Python's str < str on character sequences: lexicographic by code point.
RECURSIVE StrLess(_, _)
StrLess(a, b) ==
    IF b = <<>> THEN FALSE
    ELSE IF a = <<>> THEN TRUE
    ELSE IF Head(a) # Head(b) THEN Ord(Head(a)) < Ord(Head(b))
    ELSE StrLess(Tail(a), Tail(b))

\* ------------------------------------------------- _natural_sort_key
RECURSIVE RunLen(_, _)
\* Length of the longest prefix of s whose characters are all matched by \d
\* (digit = TRUE) or all not matched by it (digit = FALSE).
RunLen(s, digit) ==
    IF s = <<>> \/ IsDecimalChar(Head(s)) # digit THEN 0
    ELSE 1 + RunLen(Tail(s), digit)

RECURSIVE ReSplitDigits(_)
\* re.split(r"(\d+)", s): the non-digit runs (possibly empty) with the digit
\* runs between them.
ReSplitDigits(s) ==
    LET n == RunLen(s, FALSE)
        rest == SubSeq(s, n + 1, Len(s))
        m == RunLen(rest, TRUE)
    IN  IF n = Len(s) THEN <<s>>
        ELSE <<SubSeq(s, 1, n), SubSeq(rest, 1, m)>>
             \o ReSplitDigits(SubSeq(rest, m + 1, Len(rest)))

\* str.isdigit(): non-empty and all digits.
IsDigitStr(s) == s # <<>> /\ \A i \in 1..Len(s) : IsDigitChar(s[i])

RECURSIVE IntOf(_)
\* int(part) of a string of decimal digits.
IntOf(s) == IF s = <<>> THEN 0 ELSE 10 * IntOf(SubSeq(s, 1, Len(s) - 1)) + DigitVal(s[Len(s)])

\* value.replace("\\", "/") on a character sequence.
ReplaceBackslash(s) == [i \in 1..Len(s) |-> IF s[i] = "\\" THEN "/" ELSE s[i]]

\* int(part) raises ValueError: part.isdigit() holds of a part that has a
\* character int() does not accept.
IntRaises(part) == IsDigitStr(part) /\ \E i \in 1..Len(part) : ~IsDecimalChar(part[i])

\* _natural_sort_key(value) raises ValueError instead of returning a key.
NaturalSortKeyRaises(value) ==
    LET parts == ReSplitDigits(Lower(ReplaceBackslash(value)))
    IN  \E i \in 1..Len(parts) : IntRaises(parts[i])

\* One element of the key: an int (isnum) or a str.
KeyPart(part) ==
    IF IsDigitStr(part) THEN [isnum |-> TRUE, num |-> IntOf(part), str |-> <<>>]
    ELSE [isnum |-> FALSE, num |-> 0, str |-> part]

\* The key _natural_sort_key(value) returns when it does not raise.
_natural_sort_key(value) ==
    LET normalized == Lower(ReplaceBackslash(value))
        parts == ReSplitDigits(normalized)
    IN  [i \in 1..Len(parts) |-> KeyPart(parts[i])]

\* Python's < on two key elements of the same type.
PartLess(a, b) ==
    IF a.isnum /\ b.isnum THEN a.num < b.num
    ELSE IF ~a.isnum /\ ~b.isnum THEN StrLess(a.str, b.str)
    ELSE FALSE

RECURSIVE KeyLess(_, _)
\* Python's list < list: the first differing element decides, a proper prefix
\* is smaller.
KeyLess(k1, k2) ==
    IF k2 = <<>> THEN FALSE
    ELSE IF k1 = <<>> THEN TRUE
    ELSE IF Head(k1) # Head(k2) THEN PartLess(Head(k1), Head(k2))
    ELSE KeyLess(Tail(k1), Tail(k2))

\* ------------------------------------------------ file-name helpers
RECURSIVE LastIndexOf(_, _)
\* Index of the last c in s, 0 when there is none.
LastIndexOf(s, c) ==
    IF s = <<>> THEN 0
    ELSE IF s[Len(s)] = c THEN Len(s)
    ELSE LastIndexOf(SubSeq(s, 1, Len(s) - 1), c)

\* os.path.basename: what follows the last separator.
Basename(name) ==
    LET n == ReplaceBackslash(name)
    IN  SubSeq(n, LastIndexOf(n, "/") + 1, Len(n))

\* os.path.splitext(...)[1]: from the last dot of the base name on, unless
\* only dots precede it.
SplitextExt(name) ==
    LET b == Basename(name)
        i == LastIndexOf(b, ".")
    IN  IF i > 0 /\ \E j \in 1..(i - 1) : b[j] # "."
        THEN SubSeq(b, i, Len(b))
        ELSE <<>>

RECURSIVE StripDots(_)
\* str.strip("._")
StripDots(s) ==
    IF s = <<>> THEN s
    ELSE IF Head(s) \in {".", "_"} THEN StripDots(Tail(s))
    ELSE IF s[Len(s)] \in {".", "_"} THEN StripDots(SubSeq(s, 1, Len(s) - 1))
    ELSE s

\* werkzeug's secure_filename on names over the model's alphabet (ASCII
\* letters, digits, ".", "_" and U+00B2): NFKD normalisation turns U+00B2
\* into "2", nothing else is replaced, leading and trailing dots and
\* underscores are stripped.
secure_filename(name) ==
    StripDots([i \in 1..Len(name) |-> IF name[i] = SuperscriptTwo THEN "2" ELSE name[i]])

ALLOWED_IMAGE_EXTENSIONS ==
    { <<".", "j", "p", "g">>, <<".", "j", "p", "e", "g">>, <<".", "p", "n", "g">>,
      <<".", "w", "e", "b", "p">>, <<".", "g", "i", "f">>, <<".", "b", "m", "p">>,
      <<".", "a", "v", "i", "f">> }

_is_allowed_image_filename(filename) ==
    Lower(SplitextExt(filename)) \in ALLOWED_IMAGE_EXTENSIONS

\* ------------------------------------------------------------- paths
UPLOAD_FOLDER == <<"static", "uploads">>
COVER_FOLDER == <<"static", "covers">>

\* The working directory of the server process.
Cwd == <<"", "srv", "app">>

RECURSIVE NormFrom(_, _)
\* os.path.normpath on an absolute path: "." is dropped and ".." removes the
\* segment before it (at the root it is dropped).  acc is the result so far.
NormFrom(acc, rest) ==
    IF rest = <<>> THEN acc
    ELSE IF Head(rest) \in {"", "."} THEN NormFrom(acc, Tail(rest))
    ELSE IF Head(rest) = ".."
         THEN NormFrom(IF Len(acc) > 1 THEN SubSeq(acc, 1, Len(acc) - 1) ELSE acc,
                       Tail(rest))
    ELSE NormFrom(Append(acc, Head(rest)), Tail(rest))

\* os.path.abspath: a relative path is joined to the working directory.
Abspath(p) ==
    IF p # <<>> /\ Head(p) = "" THEN NormFrom(<<"">>, Tail(p))
    ELSE NormFrom(<<"">>, Tail(Cwd) \o p)

RECURSIVE LStripSep(_)
\* str.lstrip("/\\"): leading separators removed.
LStripSep(p) == IF p # <<>> /\ Head(p) = "" THEN LStripSep(Tail(p)) ELSE p

\* os.path.join(a, b): an absolute b replaces a.
PathJoin(a, b) == IF b # <<>> /\ Head(b) = "" THEN b ELSE a \o b

IsPrefix(a, b) == Len(a) <= Len(b) /\ SubSeq(b, 1, Len(a)) = a

\* absolute_path.startswith(static_root + os.sep)
UnderStaticRoot(abs) ==
    LET static_root == Abspath(<<"static">>)
    IN  IsPrefix(static_root, abs) /\ Len(abs) > Len(static_root)

\* f"{slug}{suffix}" as path segments: the suffix joins the slug's last piece.
SlugFile(slug, suffix) ==
    SubSeq(slug, 1, Len(slug) - 1) \o <<slug[Len(slug)] \o suffix>>

\* ------------------------------------------------------------- state
VARIABLES
    users,      \* users table: set of [id, username, password, role]
    series,     \* series table: set of [id, slug, cover_path]
    chapters,   \* chapters table: bag of [series_id, chapter_number, page_number, image_path]
    bookmarks,  \* bookmarks table: bag of [user_id, series_id]
    files,      \* the files on disk, each by its absolute normalised path
    session,    \* the browser session: [is_admin, user_id, user_username, user_role]
    req,        \* the request last handled
    resp,       \* the response to it
    proc,       \* the requests in flight, step by step (concurrent specifications)
    dbLock      \* the process holding the store's write lock, 0 when free

vars == <<users, series, chapters, bookmarks, files, session, req, resp, proc, dbLock>>

ADMIN_ACCESS_KEY == "change-this-admin-key"

\* ------------------------------------------------- requests, responses
\* A request: the handler it is routed to, its method and path, the form
\* fields the gates read (access_key, next) and the names of the files it
\* uploads, in upload order.
Req(handler, method, path, key, next, uploads) ==
    [handler |-> handler, method |-> method, path |-> path, key |-> key,
     next |-> next, uploads |-> uploads, username |-> <<>>]

Resp(status, location, next, body, pages) ==
    [status |-> status, location |-> location, next |-> next, body |-> body,
     pages |-> pages]

\* A session without the admin flag and without a user (absent keys read as
\* FALSE, 0 and "").
NoSession == [is_admin |-> FALSE, user_id |-> 0, user_username |-> <<>>, user_role |-> ""]

\* A request slot with no request in flight.
Idle == [pc |-> "idle"]

NoReq == Req("", "", <<>>, "", <<>>, <<>>)
NoResp == Resp(0, <<>>, <<>>, "", <<>>)

\* url_for(...) of the endpoints the handlers redirect to.
UrlIndex == <<"/">>
UrlAdminPanel == <<"/", "admin">>
UrlAdminAccess == <<"/", "admin", "/", "access">>
UrlUserLogin == <<"/", "user", "/", "login">>

Page(body) == Resp(200, <<>>, <<>>, body, <<>>)
Error(status, body) == Resp(status, <<>>, <<>>, body, <<>>)
Redirect(location) == Resp(302, location, <<>>, "", <<>>)
\* redirect(url_for(endpoint, next=path))
RedirectNext(location, next) == Resp(302, location, next, "", <<>>)
\* redirect(url_for("admin_panel", error=... / notice=...))
RedirectMsg(location, msg) == Resp(302, location, <<>>, msg, <<>>)

RECURSIVE SlugStr(_)
\* The slug as it stands in a URL: its pieces joined by the separator.
SlugStr(slug) ==
    IF Len(slug) = 1 THEN slug[1] ELSE slug[1] \o "\\" \o SlugStr(Tail(slug))

\* ------------------------------------------------------------- gates
\* A check that asks for a leading "/" only.
IsSafeNextPathAnyLeadingSlash(path) == path # <<>> /\ path[1] = "/"

_is_safe_next_path(path) ==
    /\ path # <<>>
    /\ path[1] = "/"
    /\ ~(Len(path) >= 2 /\ path[2] = "/")

\* A gate that lets every session through.
require_admin_key_open(s) == TRUE

\* require_admin_key: the wrapped view runs iff the session flag is set.
require_admin_key(s) == s.is_admin

\* require_user_login: the wrapped view runs iff the session holds a user id.
require_user_login(s) == s.user_id # 0

\* A gate redirect that forgets the path the request asked for.
AdminGateRedirectNoNext(path) == Redirect(UrlAdminAccess)

\* What the admin gate answers when it does not run the view.
AdminGateRedirect(path) == RedirectNext(UrlAdminAccess, path)
UserGateRedirect(path) == RedirectNext(UrlUserLogin, path)

\* request.args.get("next") or request.form.get("next"): the value of the
\* query string when it has one, else the value of the form.
ArgsThenForm(args_next, form_next) == IF args_next # <<>> THEN args_next ELSE form_next

\* request.form.get("next") or request.args.get("next")
FormThenArgs(form_next, args_next) == IF form_next # <<>> THEN form_next ELSE args_next

\* ... or default, then the safety check: given is the supplied next value,
\* empty when there is none.
NextPath(given, default) ==
    LET next_path == IF given # <<>> THEN given ELSE default
    IN  IF _is_safe_next_path(next_path) THEN next_path ELSE default

\* ------------------------------------------------------ store queries
\* SELECT ... FROM series WHERE slug = ?  (the set holds at most one row)
SeriesBySlug(tbl, slug) == {s \in tbl : s.slug = slug}

\* INSERT INTO series: the UNIQUE(slug) constraint decides whether it succeeds.
SeriesInsertOk(tbl, slug) == SeriesBySlug(tbl, slug) = {}

SeriesInsert(tbl, slug, cover_path) ==
    tbl \cup {[id |-> Cardinality(tbl) + 1, slug |-> slug, cover_path |-> cover_path]}

\* UPDATE series SET cover_path = ? WHERE slug = ?
SeriesSetCover(tbl, slug, cover_path) ==
    {IF s.slug = slug THEN [s EXCEPT !.cover_path = cover_path] ELSE s : s \in tbl}

\* The rows of a bag a predicate keeps.
BagKeep(bag, Keep(_)) == [r \in {x \in DOMAIN bag : Keep(x)} |-> bag[r]]

BagInsert(bag, row) == bag (+) SetToBag({row})

\* SELECT ... FROM chapters WHERE series_id = ? AND chapter_number = ?
ChapterRows(tbl, sid, n) ==
    LET Hit(r) == r.series_id = sid /\ r.chapter_number = n
    IN  BagKeep(tbl, Hit)

\* DELETE FROM chapters WHERE series_id = ? AND chapter_number = ?
ChaptersDelete(tbl, sid, n) ==
    LET Miss(r) == ~(r.series_id = sid /\ r.chapter_number = n)
    IN  BagKeep(tbl, Miss)

\* ------------------------------------------------------------- disk
\* FileStorage.save(path): the file exists afterwards (an existing one is
\* overwritten).
SaveFile(disk, path) == disk \cup {Abspath(path)}

\* os.remove(path) guarded by os.path.isfile / os.path.exists.
RemoveFile(disk, abs) == disk \ {abs}

\* ------------------------------------------------------ admin access
\* hmac.compare_digest on two strings.
\* A comparison that accepts every pair.
CompareAcceptsAll(a, b) == TRUE

compare_digest(a, b) == a = b

\* POST/GET /admin/access
admin_access(method, next, key) ==
    LET next_path == NextPath(next, UrlAdminPanel)
    IN  /\ req' = Req("admin_access", method, UrlAdminAccess, key, next, <<>>)
        /\ IF method = "POST" /\ compare_digest(key, ADMIN_ACCESS_KEY)
           THEN /\ session' = [session EXCEPT !.is_admin = TRUE]
                /\ resp' = Redirect(next_path)
           ELSE /\ session' = session
                /\ resp' = Page(IF method = "POST"
                                THEN "admin_access.html: Invalid access key."
                                ELSE "admin_access.html")
        /\ UNCHANGED <<users, series, chapters, bookmarks, files, proc, dbLock>>

\* GET /admin/logout
admin_logout ==
    /\ req' = Req("admin_logout", "GET", <<"/", "admin", "/", "logout">>, "", <<>>, <<>>)
    /\ session' = [session EXCEPT !.is_admin = FALSE]
    /\ resp' = Redirect(UrlIndex)
    /\ UNCHANGED <<users, series, chapters, bookmarks, files, proc, dbLock>>

\* GET /admin
admin_panel ==
    /\ req' = Req("admin_panel", "GET", UrlAdminPanel, "", <<>>, <<>>)
    /\ resp' = IF require_admin_key(session)
               THEN Page("admin_panel.html")
               ELSE AdminGateRedirect(UrlAdminPanel)
    /\ UNCHANGED <<users, series, chapters, bookmarks, files, session, proc, dbLock>>

\* ---------------------------------------------------------- add_series
\* cover_ext: the lower-cased extension of secure_filename(basename(name)).
CoverExt(filename) == Lower(SplitextExt(secure_filename(Basename(filename))))

\* f"{slug}_cover{cover_ext}"
CoverFilename(slug, filename) == SlugFile(slug, "_cover" \o Str(CoverExt(filename)))

\* os.path.join(COVER_FOLDER, cover_filename)
CoverSavePath(slug, filename) == COVER_FOLDER \o CoverFilename(slug, filename)

\* f"covers/{cover_filename}"
CoverDbPath(slug, filename) == <<"covers">> \o CoverFilename(slug, filename)

UrlAddSeries == <<"/", "admin", "/", "add-series">>

SlugExistsError == Error(400, "Slug already exists. Use a unique slug.")

\* The checks of add_series before it touches the store: the response that
\* ends the request there, NoResp when the request goes on.
AddSeriesReject(filename) ==
    IF filename = <<>> THEN Error(400, "Cover image is required.")
    ELSE IF ~_is_allowed_image_filename(filename)
         THEN Error(400, "Invalid cover image format.")
    ELSE NoResp

\* An error path that leaves the saved cover where it is.
AddSeriesCleanupNothing(disk, slug, filename) == disk

\* except sqlite3.IntegrityError: the saved cover is removed when it exists.
AddSeriesCleanup(disk, slug, filename) ==
    LET abs == Abspath(CoverSavePath(slug, filename))
    IN  IF abs \in disk THEN RemoveFile(disk, abs) ELSE disk

\* POST /admin/add-series, handled without another request in between.
add_series(slug, filename) ==
    /\ req' = Req("add_series", "POST", UrlAddSeries, "", <<>>, <<filename>>)
    /\ IF ~require_admin_key(session)
       THEN /\ resp' = AdminGateRedirect(UrlAddSeries)
            /\ UNCHANGED <<series, files>>
       ELSE IF AddSeriesReject(filename) # NoResp
       THEN /\ resp' = AddSeriesReject(filename)
            /\ UNCHANGED <<series, files>>
       ELSE IF SeriesBySlug(series, slug) # {}
       THEN /\ resp' = SlugExistsError
            /\ UNCHANGED <<series, files>>
       ELSE LET saved == SaveFile(files, CoverSavePath(slug, filename))
            IN  IF SeriesInsertOk(series, slug)
                THEN /\ series' = SeriesInsert(series, slug, CoverDbPath(slug, filename))
                     /\ files' = saved
                     /\ resp' = Redirect(UrlAdminPanel)
                ELSE /\ series' = series
                     /\ files' = AddSeriesCleanup(saved, slug, filename)
                     /\ resp' = SlugExistsError
    /\ UNCHANGED <<users, chapters, bookmarks, session, proc, dbLock>>

\* ----------------------------------------------------------- set_cover
UrlSetCover(slug) == <<"/", "admin", "/", "set-cover", "/", SlugStr(slug)>>

SetCoverReject(filename) ==
    IF filename = <<>>
    THEN RedirectMsg(UrlAdminPanel, "Please select a cover image file.")
    ELSE IF ~_is_allowed_image_filename(filename)
         THEN RedirectMsg(UrlAdminPanel, "Invalid cover image format.")
    ELSE NoResp

\* The old cover is removed when its path is set, differs from the new one
\* and resolves under the static root.
SetCoverCleanup(disk, old_cover_db_path, new_cover_db_path) ==
    IF old_cover_db_path # <<>> /\ old_cover_db_path # new_cover_db_path
    THEN LET old_abs == Abspath(PathJoin(<<"static">>, old_cover_db_path))
         IN  IF UnderStaticRoot(old_abs) THEN RemoveFile(disk, old_abs) ELSE disk
    ELSE disk

\* POST /admin/set-cover/<slug>, handled without another request in between.
set_cover(slug, filename) ==
    /\ req' = Req("set_cover", "POST", UrlSetCover(slug), "", <<>>, <<filename>>)
    /\ IF ~require_admin_key(session)
       THEN /\ resp' = AdminGateRedirect(UrlSetCover(slug))
            /\ UNCHANGED <<series, files>>
       ELSE IF SetCoverReject(filename) # NoResp
       THEN /\ resp' = SetCoverReject(filename)
            /\ UNCHANGED <<series, files>>
       ELSE IF SeriesBySlug(series, slug) = {}
       THEN /\ resp' = RedirectMsg(UrlAdminPanel, "Series not found.")
            /\ UNCHANGED <<series, files>>
       ELSE LET row == CHOOSE s \in SeriesBySlug(series, slug) : TRUE
                new == CoverDbPath(slug, filename)
                saved == SaveFile(files, CoverSavePath(slug, filename))
            IN  /\ series' = SeriesSetCover(series, slug, new)
                /\ files' = SetCoverCleanup(saved, row.cover_path, new)
                /\ resp' = RedirectMsg(UrlAdminPanel, "Updated cover.")
    /\ UNCHANGED <<users, chapters, bookmarks, session, proc, dbLock>>

\* ------------------------------------------------------ upload_chapter
UrlUpload(slug) == <<"/", "admin", "/", "upload", "/", SlugStr(slug)>>

UrlReadChapter(slug, n) ==
    <<"/", "read", "/", SlugStr(slug), "/", "chapter", "/", ToString(n)>>

\* request.files.getlist("images[]"): the uploaded images in upload order,
\* each with its position in the request and its file name.
RequestImages(uploaded) ==
    [i \in 1..Len(uploaded) |-> [pos |-> i, filename |-> uploaded[i]]]

\* The key images.sort() orders an uploaded image by.
ImageKey(img) == _natural_sort_key(Basename(img.filename))

\* One step of the stable sort: img goes before the first element whose key
\* is greater than its own.
SortInsert(sorted, img) ==
    LET later == {i \in 1..Len(sorted) : KeyLess(ImageKey(img), ImageKey(sorted[i]))}
        at == IF later = {} THEN Len(sorted) + 1
              ELSE CHOOSE i \in later : \A j \in later : i <= j
    IN  SubSeq(sorted, 1, at - 1) \o <<img>> \o SubSeq(sorted, at, Len(sorted))

RECURSIVE SortImages(_)
\* images.sort(key=...): stable, ascending by key.
SortImages(images) ==
    IF images = <<>> THEN <<>>
    ELSE SortInsert(SortImages(SubSeq(images, 1, Len(images) - 1)), images[Len(images)])

\* The images of the request with a file name, in upload order.
NamedImages(uploaded) ==
    LET Named(img) == img.filename # <<>>
    IN  SelectSeq(RequestImages(uploaded), Named)

\* images.sort(...) raises: the key function raises on one of the images.
SortRaises(uploaded) ==
    \E i \in 1..Len(NamedImages(uploaded)) :
        NaturalSortKeyRaises(Basename(NamedImages(uploaded)[i].filename))

\* The images of the request with a file name, in sorted order.
SelectedImages(uploaded) == SortImages(NamedImages(uploaded))

\* ext of secure_filename(basename(name)), lower-cased.
ImageExt(filename) == Lower(SplitextExt(secure_filename(Basename(filename))))

\* The images the loop does not skip, in the loop's order.
AcceptedImages(uploaded) ==
    LET Allowed(img) == ImageExt(img.filename) \in ALLOWED_IMAGE_EXTENSIONS
    IN  SelectSeq(SelectedImages(uploaded), Allowed)

\* os.path.join(UPLOAD_FOLDER, f"{slug}_ch{chapter_number}_{page_number}{ext}")
PageSavePath(slug, n, page_number, ext) ==
    UPLOAD_FOLDER
    \o SlugFile(slug, "_ch" \o ToString(n) \o "_" \o ToString(page_number)
                      \o (IF ext = <<>> THEN ".jpg" ELSE Str(ext)))

\* The rows the loop inserts: the i-th accepted image becomes page i, its
\* image_path "/" + save_path.
UploadRows(sid, slug, n, uploaded) ==
    LET accepted == AcceptedImages(uploaded)
    IN  [i \in 1..Len(accepted) |->
            [series_id |-> sid, chapter_number |-> n, page_number |-> i,
             image_path |-> <<"">> \o PageSavePath(slug, n, i, ImageExt(accepted[i].filename))]]

\* The page number upload_chapter gives the image at position k of the
\* request, 0 when the image is skipped or the request fails in the sort.
PageNumberOf(uploaded, k) ==
    IF SortRaises(uploaded) THEN 0
    ELSE LET accepted == AcceptedImages(uploaded)
             hits == {i \in 1..Len(accepted) : accepted[i].pos = k}
         IN  IF hits = {} THEN 0 ELSE CHOOSE i \in hits : TRUE

RECURSIVE InsertAll(_, _)
InsertAll(bag, rows) ==
    IF rows = <<>> THEN bag ELSE InsertAll(BagInsert(bag, Head(rows)), Tail(rows))

\* POST /admin/upload/<slug>
upload_chapter(slug, n, uploaded) ==
    /\ req' = Req("upload_chapter", "POST", UrlUpload(slug), "", <<>>, uploaded)
    /\ IF ~require_admin_key(session)
       THEN /\ resp' = AdminGateRedirect(UrlUpload(slug))
            /\ UNCHANGED <<chapters, files>>
       ELSE IF SeriesBySlug(series, slug) = {}
       THEN /\ resp' = Error(404, "Series not found")
            /\ UNCHANGED <<chapters, files>>
       ELSE IF SortRaises(uploaded)
       THEN /\ resp' = Error(500, "ValueError")
            /\ UNCHANGED <<chapters, files>>
       ELSE IF SelectedImages(uploaded) = <<>>
       THEN /\ resp' = Error(400, "No files were selected.")
            /\ UNCHANGED <<chapters, files>>
       ELSE LET row == CHOOSE s \in SeriesBySlug(series, slug) : TRUE
                rows == UploadRows(row.id, slug, n, uploaded)
            IN  IF rows = <<>>
                THEN /\ resp' = Error(400, "No valid image files found in the selected folder.")
                     /\ UNCHANGED <<chapters, files>>
                ELSE /\ BagCardinality(chapters) + Len(rows) <= MaxRows
                     /\ chapters' = InsertAll(chapters, rows)
                     /\ files' = files \cup {Abspath(LStripSep(rows[i].image_path)) :
                                               i \in 1..Len(rows)}
                     /\ resp' = Redirect(UrlReadChapter(slug, n))
    /\ UNCHANGED <<users, series, bookmarks, session, proc, dbLock>>

\* ------------------------------------------------------ delete_chapter
UrlDeleteChapter(slug, n) ==
    <<"/", "admin", "/", "delete-chapter", "/", SlugStr(slug), "/", ToString(n)>>

\* os.path.abspath(image_path.lstrip("/\\"))
PageAbsPath(image_path) == Abspath(LStripSep(image_path))

\* A loop without the containment check.
PageDeletableAnywhere(image_path) == TRUE

\* The loop's guard: a file is removed only under the static root.
PageDeletable(image_path) == UnderStaticRoot(PageAbsPath(image_path))

\* The files left after the loop over the deleted pages.
DeleteChapterFiles(disk, pages) ==
    disk \ {PageAbsPath(r.image_path) : r \in {x \in DOMAIN pages : PageDeletable(x.image_path)}}

\* POST /admin/delete-chapter/<slug>/<chapter_number>
delete_chapter(slug, n) ==
    /\ req' = Req("delete_chapter", "POST", UrlDeleteChapter(slug, n), "", <<>>, <<>>)
    /\ IF ~require_admin_key(session)
       THEN /\ resp' = AdminGateRedirect(UrlDeleteChapter(slug, n))
            /\ UNCHANGED <<chapters, files>>
       ELSE IF SeriesBySlug(series, slug) = {}
       THEN /\ resp' = RedirectMsg(UrlAdminPanel, "Series not found.")
            /\ UNCHANGED <<chapters, files>>
       ELSE LET row == CHOOSE s \in SeriesBySlug(series, slug) : TRUE
                pages == ChapterRows(chapters, row.id, n)
            IN  IF pages = EmptyBag
                THEN /\ resp' = RedirectMsg(UrlAdminPanel, "Chapter not found.")
                     /\ UNCHANGED <<chapters, files>>
                ELSE /\ chapters' = ChaptersDelete(chapters, row.id, n)
                     /\ files' = DeleteChapterFiles(files, pages)
                     /\ resp' = RedirectMsg(UrlAdminPanel, "Deleted chapter.")
    /\ UNCHANGED <<users, series, bookmarks, session, proc, dbLock>>

\* -------------------------------------------------------- read_chapter
\* Every order ORDER BY page_number may return the rows in: all of them,
\* page numbers never decreasing; rows with equal page numbers in any order.
OrderedByPageNumber(pages) ==
    LET k == BagCardinality(pages)
    IN  {q \in [1..k -> DOMAIN pages] :
            /\ \A r \in DOMAIN pages : Cardinality({i \in 1..k : q[i] = r}) = pages[r]
            /\ \A i \in 1..(k - 1) : q[i].page_number <= q[i + 1].page_number}

\* GET /read/<slug>/chapter/<chapter_number>
read_chapter(slug, n) ==
    /\ req' = Req("read_chapter", "GET", UrlReadChapter(slug, n), "", <<>>, <<>>)
    /\ IF SeriesBySlug(series, slug) = {}
       THEN resp' = Error(404, "Not Found")
       ELSE LET row == CHOOSE s \in SeriesBySlug(series, slug) : TRUE
                rows == ChapterRows(chapters, row.id, n)
            IN  IF rows = EmptyBag
                THEN resp' = Error(404, "Not Found")
                ELSE \E pages \in OrderedByPageNumber(rows) :
                        resp' = Resp(200, <<>>, <<>>, "reader.html", pages)
    /\ UNCHANGED <<users, series, chapters, bookmarks, files, session, proc, dbLock>>

\* ------------------------------------------------- user login, logout
\* SELECT ... FROM users WHERE username = ?  (username is UNIQUE)
UserByName(tbl, username) == {u \in tbl : u.username = username}

RECURSIVE Strip(_)
\* str.strip(): leading and trailing blanks removed.
Strip(s) ==
    IF s = <<>> THEN s
    ELSE IF Head(s) = " " THEN Strip(Tail(s))
    ELSE IF s[Len(s)] = " " THEN Strip(SubSeq(s, 1, Len(s) - 1))
    ELSE s

\* The request of a login or registration form: the user name as typed and
\* the password submitted.
FormReq(handler, method, path, username, password, next) ==
    [Req(handler, method, path, password, next, <<>>) EXCEPT !.username = username]

\* GET/POST /user/login
user_login(method, username, password, next) ==
    LET next_path == NextPath(next, UrlIndex)
        found == UserByName(users, Strip(username))
        ok == /\ method = "POST"
              /\ \E u \in found : compare_digest(u.password, password)
    IN  /\ req' = FormReq("user_login", method, UrlUserLogin, username, password, next)
        /\ IF ok
           THEN LET user == CHOOSE u \in found : TRUE
                IN  /\ session' = [session EXCEPT !.user_id = user.id,
                                                  !.user_username = user.username,
                                                  !.user_role = user.role]
                    /\ resp' = Redirect(next_path)
           ELSE /\ session' = session
                /\ resp' = Page(IF method = "POST"
                                THEN "user_login.html: Invalid username or password."
                                ELSE "user_login.html")
        /\ UNCHANGED <<users, series, chapters, bookmarks, files, proc, dbLock>>

\* GET /user/logout
user_logout ==
    /\ req' = Req("user_logout", "GET", <<"/", "user", "/", "logout">>, "", <<>>, <<>>)
    /\ session' = [session EXCEPT !.user_id = 0, !.user_username = <<>>, !.user_role = ""]
    /\ resp' = Redirect(UrlIndex)
    /\ UNCHANGED <<users, series, chapters, bookmarks, files, proc, dbLock>>

\* ------------------------------------------------------- user_register
UrlUserRegister == <<"/", "user", "/", "register">>

\* The form checks of user_register: the error of the first check that
\* fails, "" when all pass.
RegisterFormError(username, password, confirm_password) ==
    IF username = <<>> \/ password = "" THEN "Username and password are required."
    ELSE IF Len(username) < 3 THEN "Username must be at least 3 characters."
    ELSE IF Len(password) < 4 THEN "Password must be at least 4 characters."
    ELSE IF password # confirm_password THEN "Passwords do not match."
    ELSE ""

\* username TEXT UNIQUE: the INSERT succeeds iff no row has the user name.
UsersInsertOk(tbl, username) == UserByName(tbl, username) = {}

\* id INTEGER PRIMARY KEY AUTOINCREMENT: one more than the largest id.
NextUserId(tbl) ==
    IF tbl = {} THEN 1 ELSE (CHOOSE i \in {u.id : u \in tbl} : \A u \in tbl : u.id <= i) + 1

\* INSERT INTO users (username, password, role) VALUES (?, ?, "user")
UsersInsert(tbl, username, password) ==
    tbl \cup {[id |-> NextUserId(tbl), username |-> username, password |-> password,
               role |-> "user"]}

\* GET/POST /user/register
user_register(method, typed, password, confirm_password, next) ==
    LET next_path == NextPath(next, UrlIndex)
        username == Strip(typed)
        error == RegisterFormError(username, password, confirm_password)
    IN  /\ req' = FormReq("user_register", method, UrlUserRegister, typed, password, next)
        /\ IF method # "POST"
           THEN /\ resp' = Page("user_register.html")
                /\ UNCHANGED <<users, session>>
           ELSE IF error # ""
           THEN /\ resp' = Page("user_register.html: " \o error)
                /\ UNCHANGED <<users, session>>
           ELSE IF ~UsersInsertOk(users, username)
           THEN /\ resp' = Page("user_register.html: Username already exists.")
                /\ UNCHANGED <<users, session>>
           ELSE LET user == CHOOSE u \in UserByName(UsersInsert(users, username, password),
                                                    username) : TRUE
                IN  /\ users' = UsersInsert(users, username, password)
                    /\ session' = [session EXCEPT !.user_id = user.id,
                                                  !.user_username = user.username,
                                                  !.user_role = user.role]
                    /\ resp' = Redirect(next_path)
        /\ UNCHANGED <<series, chapters, bookmarks, files, proc, dbLock>>

\* ----------------------------------------------------- toggle_bookmark
UrlBookmark(slug) == <<"/", "bookmark", "/", SlugStr(slug)>>

\* SELECT 1 FROM bookmarks WHERE user_id = ? AND series_id = ? LIMIT 1
BookmarkExists(tbl, user_id, series_id) ==
    \E r \in DOMAIN tbl : r.user_id = user_id /\ r.series_id = series_id

\* DELETE FROM bookmarks WHERE user_id = ? AND series_id = ?
BookmarksDelete(tbl, user_id, series_id) ==
    LET Miss(r) == ~(r.user_id = user_id /\ r.series_id = series_id)
    IN  BagKeep(tbl, Miss)

\* INSERT INTO bookmarks (user_id, series_id, last_chapter) VALUES (?, ?, NULL)
BookmarksInsert(tbl, user_id, series_id) ==
    BagInsert(tbl, [user_id |-> user_id, series_id |-> series_id])

\* A toggle that inserts whatever the existence check found.
ToggleWriteInsertOnly(tbl, user_id, series_id, existing) ==
    BookmarksInsert(tbl, user_id, series_id)

\* if existing: DELETE ... else: INSERT ...
ToggleWrite(tbl, user_id, series_id, existing) ==
    IF existing THEN BookmarksDelete(tbl, user_id, series_id)
    ELSE BookmarksInsert(tbl, user_id, series_id)

\* The bookmarks table after toggle_bookmark ran with no other request in
\* between: the existence check, then the write it chooses.
ToggleRows(tbl, user_id, series_id) ==
    ToggleWrite(tbl, user_id, series_id, BookmarkExists(tbl, user_id, series_id))

\* POST /bookmark/<slug>, handled with no other request in between.  It
\* writes, so it waits while another connection holds the write lock.
toggle_bookmark(slug, next) ==
    /\ dbLock = 0
    /\ req' = Req("toggle_bookmark", "POST", UrlBookmark(slug), "", next, <<>>)
    /\ IF ~require_user_login(session)
       THEN /\ resp' = UserGateRedirect(UrlBookmark(slug))
            /\ bookmarks' = bookmarks
       ELSE IF SeriesBySlug(series, slug) = {}
       THEN /\ resp' = Error(404, "Not Found")
            /\ bookmarks' = bookmarks
       ELSE LET row == CHOOSE s \in SeriesBySlug(series, slug) : TRUE
            IN  /\ bookmarks' = ToggleRows(bookmarks, session.user_id, row.id)
                /\ resp' = Redirect(NextPath(next, UrlIndex))
    /\ UNCHANGED <<users, series, chapters, files, session, proc, dbLock>>

\* The same handler, statement by statement, as request p among concurrent
\* requests.  Each request has its own connection: it reads what is
\* committed, its INSERT or DELETE takes the store's write lock (waiting
\* while another connection holds it) and becomes visible at its commit.

\* The gate, the series lookup and the existence check.
ToggleCheck(p, slug, next) ==
    /\ proc[p].pc = "idle"
    /\ require_user_login(session)
    /\ SeriesBySlug(series, slug) # {}
    /\ LET row == CHOOSE s \in SeriesBySlug(series, slug) : TRUE
       IN  proc' = [proc EXCEPT ![p] =
                       [pc |-> "toggle_write",
                        slug |-> slug,
                        next |-> next,
                        user_id |-> session.user_id,
                        series_id |-> row.id,
                        existing |-> BookmarkExists(bookmarks, session.user_id, row.id),
                        next_path |-> NextPath(next, UrlIndex)]]
    /\ UNCHANGED <<users, series, chapters, bookmarks, files, session, req, resp, dbLock>>

\* db.execute(DELETE ...) or db.execute(INSERT ...)
ToggleExecute(p) ==
    /\ proc[p].pc = "toggle_write"
    /\ dbLock = 0
    /\ dbLock' = p
    /\ proc' = [proc EXCEPT ![p].pc = "toggle_commit"]
    /\ UNCHANGED <<users, series, chapters, bookmarks, files, session, req, resp>>

\* db.commit(), db.close(), redirect(next_path)
ToggleCommit(p) ==
    /\ proc[p].pc = "toggle_commit"
    /\ dbLock = p
    /\ bookmarks' = ToggleWrite(bookmarks, proc[p].user_id, proc[p].series_id,
                                proc[p].existing)
    /\ dbLock' = 0
    /\ proc' = [proc EXCEPT ![p] = Idle]
    /\ req' = Req("toggle_bookmark", "POST", UrlBookmark(proc[p].slug), "",
                   proc[p].next, <<>>)
    /\ resp' = Redirect(proc[p].next_path)
    /\ UNCHANGED <<users, series, chapters, files, session>>

\* ------------------------------- add_series, set_cover: step by step
\* The two cover handlers as request p among concurrent requests, one step
\* per file operation and per statement.  A request ends by recording itself
\* and its response in req and resp.  Requests the gate or the file checks
\* turn away touch nothing and are left out.

\* The gate, the file checks and the pre-emptive slug lookup.
AddSeriesCheck(p, slug, filename) ==
    /\ proc[p].pc = "idle"
    /\ require_admin_key(session)
    /\ AddSeriesReject(filename) = NoResp
    /\ IF SeriesBySlug(series, slug) # {}
       THEN /\ req' = Req("add_series", "POST", UrlAddSeries, "", <<>>, <<filename>>)
            /\ resp' = SlugExistsError
            /\ proc' = proc
       ELSE /\ proc' = [proc EXCEPT ![p] =
                           [pc |-> "add_save", slug |-> slug, filename |-> filename]]
            /\ UNCHANGED <<req, resp>>
    /\ UNCHANGED <<users, series, chapters, bookmarks, files, session, dbLock>>

\* cover_image.save(cover_save_path)
AddSeriesSave(p) ==
    /\ proc[p].pc = "add_save"
    /\ files' = SaveFile(files, CoverSavePath(proc[p].slug, proc[p].filename))
    /\ proc' = [proc EXCEPT ![p].pc = "add_insert"]
    /\ UNCHANGED <<users, series, chapters, bookmarks, session, req, resp, dbLock>>

\* db.execute(INSERT INTO series ...): it takes the write lock, and raises
\* IntegrityError when the slug is taken by now.
AddSeriesInsert(p) ==
    /\ proc[p].pc = "add_insert"
    /\ dbLock = 0
    /\ dbLock' = p
    /\ proc' = [proc EXCEPT ![p].pc =
                   IF SeriesInsertOk(series, proc[p].slug) THEN "add_commit"
                   ELSE "add_failed"]
    /\ UNCHANGED <<users, series, chapters, bookmarks, files, session, req, resp>>

\* db.commit(); finally: db.close(); redirect(url_for("admin_panel"))
AddSeriesCommit(p) ==
    /\ proc[p].pc = "add_commit"
    /\ dbLock = p
    /\ series' = SeriesInsert(series, proc[p].slug,
                              CoverDbPath(proc[p].slug, proc[p].filename))
    /\ dbLock' = 0
    /\ req' = Req("add_series", "POST", UrlAddSeries, "", <<>>, <<proc[p].filename>>)
    /\ resp' = Redirect(UrlAdminPanel)
    /\ proc' = [proc EXCEPT ![p] = Idle]
    /\ UNCHANGED <<users, chapters, bookmarks, files, session>>

\* except sqlite3.IntegrityError: remove the saved cover, answer 400;
\* finally: db.close()
AddSeriesFailed(p) ==
    /\ proc[p].pc = "add_failed"
    /\ dbLock = p
    /\ files' = AddSeriesCleanup(files, proc[p].slug, proc[p].filename)
    /\ dbLock' = 0
    /\ req' = Req("add_series", "POST", UrlAddSeries, "", <<>>, <<proc[p].filename>>)
    /\ resp' = SlugExistsError
    /\ proc' = [proc EXCEPT ![p] = Idle]
    /\ UNCHANGED <<users, series, chapters, bookmarks, session>>

\* The gate, the file checks and the series lookup.
SetCoverLookup(p, slug, filename) ==
    /\ proc[p].pc = "idle"
    /\ require_admin_key(session)
    /\ SetCoverReject(filename) = NoResp
    /\ IF SeriesBySlug(series, slug) = {}
       THEN /\ req' = Req("set_cover", "POST", UrlSetCover(slug), "", <<>>, <<filename>>)
            /\ resp' = RedirectMsg(UrlAdminPanel, "Series not found.")
            /\ proc' = proc
       ELSE /\ proc' = [proc EXCEPT ![p] =
                           [pc |-> "cover_save", slug |-> slug, filename |-> filename,
                            old_cover_db_path |->
                                (CHOOSE r \in SeriesBySlug(series, slug) : TRUE).cover_path]]
            /\ UNCHANGED <<req, resp>>
    /\ UNCHANGED <<users, series, chapters, bookmarks, files, session, dbLock>>

\* cover_image.save(new_cover_save_path)
SetCoverSave(p) ==
    /\ proc[p].pc = "cover_save"
    /\ files' = SaveFile(files, CoverSavePath(proc[p].slug, proc[p].filename))
    /\ proc' = [proc EXCEPT ![p].pc = "cover_update"]
    /\ UNCHANGED <<users, series, chapters, bookmarks, session, req, resp, dbLock>>

\* db.execute(UPDATE series SET cover_path = ? WHERE slug = ?)
SetCoverUpdate(p) ==
    /\ proc[p].pc = "cover_update"
    /\ dbLock = 0
    /\ dbLock' = p
    /\ proc' = [proc EXCEPT ![p].pc = "cover_commit"]
    /\ UNCHANGED <<users, series, chapters, bookmarks, files, session, req, resp>>

\* db.commit(); db.close()
SetCoverCommit(p) ==
    /\ proc[p].pc = "cover_commit"
    /\ dbLock = p
    /\ series' = SeriesSetCover(series, proc[p].slug,
                                CoverDbPath(proc[p].slug, proc[p].filename))
    /\ dbLock' = 0
    /\ proc' = [proc EXCEPT ![p].pc = "cover_cleanup"]
    /\ UNCHANGED <<users, chapters, bookmarks, files, session, req, resp>>

\* The removal of the old cover file, and the redirect.
SetCoverRemoveOld(p) ==
    /\ proc[p].pc = "cover_cleanup"
    /\ files' = SetCoverCleanup(files, proc[p].old_cover_db_path,
                                CoverDbPath(proc[p].slug, proc[p].filename))
    /\ req' = Req("set_cover", "POST", UrlSetCover(proc[p].slug), "", <<>>,
                   <<proc[p].filename>>)
    /\ resp' = RedirectMsg(UrlAdminPanel, "Updated cover.")
    /\ proc' = [proc EXCEPT ![p] = Idle]
    /\ UNCHANGED <<users, series, chapters, bookmarks, session, dbLock>>

\* ------------------------------------------- the requests of the model
Procs == 1..NumProcs

\* A slug without a separator, and one whose pieces climb out of the folder
\* it is joined to ("..\..\x").
PlainSlug == <<"a">>
ClimbingSlug == <<"..", "..", "x">>
Slugs == {PlainSlug, ClimbingSlug}

ChapterNumbers == {1, 2}

PngName == <<"a", ".", "p", "n", "g">>
GifName == <<"a", ".", "g", "i", "f">>
TxtName == <<"a", ".", "t", "x", "t">>
Page2Name == <<"2", ".", "p", "n", "g">>
Page10Name == <<"1", "0", ".", "p", "n", "g">>

\* Cover uploads: no file, two allowed formats, a format that is not allowed.
CoverNames == {<<>>, PngName, GifName, TxtName}

\* Chapter uploads: a part without a file name, one image, two images in
\* reverse page order, a file that is no image, an image after such a file.
Uploads == {<<(<<>>)>>, <<Page2Name>>, <<Page10Name, Page2Name>>, <<TxtName>>,
            <<TxtName, Page2Name>>}

AccessKeys == {ADMIN_ACCESS_KEY, "guess"}

\* Values of the "next" parameter: absent, a path of the site, a
\* protocol-relative URL, a relative path.
NextPaths == {<<>>, UrlAdminPanel, <<"/", "/", "evil.example">>, <<"evil.example">>}

\* The state after construction: empty tables (init_db.py), empty asset
\* folders, a fresh session, no request handled or in flight.
Init ==
    /\ users = {}
    /\ series = {}
    /\ chapters = EmptyBag
    /\ bookmarks = EmptyBag
    /\ files = {}
    /\ session = NoSession
    /\ req = NoReq
    /\ resp = NoResp
    /\ proc = [p \in Procs |-> Idle]
    /\ dbLock = 0

\* ---------------------------------------------------------------------
\* Spec: the admin gate, the admin panel and the four handlers that change
\* series, chapters and asset files, one request at a time, from the state
\* after construction.
Next ==
    \/ \E m \in {"GET", "POST"}, nx \in NextPaths, k \in AccessKeys : admin_access(m, nx, k)
    \/ admin_logout
    \/ admin_panel
    \/ \E f \in CoverNames : add_series(PlainSlug, f)
    \/ \E f \in CoverNames : set_cover(PlainSlug, f)
    \/ \E up \in Uploads : upload_chapter(PlainSlug, 1, up)
    \/ delete_chapter(PlainSlug, 1)

Spec == Init /\ [][Next]_vars

\* ---------------------------------------------------------------------
\* SpecChapters: chapter upload, deletion and reading, one request at a
\* time, in an admin session after both series were added (add_series of
\* PlainSlug, then of ClimbingSlug, each with a .png cover).
InitChapters ==
    /\ users = {}
    /\ series = SeriesInsert(SeriesInsert({}, PlainSlug, CoverDbPath(PlainSlug, PngName)),
                             ClimbingSlug, CoverDbPath(ClimbingSlug, PngName))
    /\ chapters = EmptyBag
    /\ bookmarks = EmptyBag
    /\ files = SaveFile(SaveFile({}, CoverSavePath(PlainSlug, PngName)),
                        CoverSavePath(ClimbingSlug, PngName))
    /\ session = [NoSession EXCEPT !.is_admin = TRUE]
    /\ req = NoReq
    /\ resp = NoResp
    /\ proc = [p \in Procs |-> Idle]
    /\ dbLock = 0

NextChapters ==
    \/ \E sl \in Slugs, n \in ChapterNumbers, up \in Uploads : upload_chapter(sl, n, up)
    \/ \E sl \in Slugs, n \in ChapterNumbers : delete_chapter(sl, n)
    \/ \E sl \in Slugs, n \in ChapterNumbers : read_chapter(sl, n)

SpecChapters == InitChapters /\ [][NextChapters]_vars

\* =====================================================================
\* Properties of Spec

\* The handlers that change series rows, chapter rows, cover files or page
\* files.
ContentHandlers == {"add_series", "upload_chapter", "delete_chapter", "set_cover"}

\* C3: the session's admin flag becomes set only in a POST to /admin/access
\* whose submitted key equals the server-held key; series rows, chapter rows
\* and asset files change only in a request to one of the four content
\* handlers made with the admin flag set; a request to one of them without
\* the flag leaves the store and the files unchanged.
C3_AdminGate ==
    [][ /\ (session'.is_admin /\ ~session.is_admin)
            => /\ req'.handler = "admin_access"
               /\ req'.method = "POST"
               /\ req'.key = ADMIN_ACCESS_KEY
        /\ (series' # series \/ chapters' # chapters \/ files' # files)
            => /\ session.is_admin
               /\ req'.handler \in ContentHandlers
        /\ (req'.handler \in ContentHandlers /\ ~session.is_admin)
            => UNCHANGED <<users, series, chapters, bookmarks, files>>
      ]_vars

\* A delete_chapter request made after the flag was dropped was turned away
\* at the gate, and the chapter rows it named are still there.
C3_Witness ==
    /\ ~session.is_admin
    /\ req.handler = "delete_chapter"
    /\ resp = AdminGateRedirect(req.path)
    /\ chapters # EmptyBag
    /\ series # {}

\* C4: /admin without the admin flag answers a redirect to /admin/access
\* with next=/admin and does not render the panel; a POST of the correct key
\* to /admin/access with that next sets the flag and redirects to /admin;
\* /admin with the flag set renders the panel.
C4_AdminRoundTrip ==
    [][ /\ (req'.handler = "admin_panel" /\ ~session.is_admin)
            => /\ resp' = RedirectNext(UrlAdminAccess, UrlAdminPanel)
               /\ resp'.body # "admin_panel.html"
        /\ (/\ req'.handler = "admin_access"
            /\ req'.method = "POST"
            /\ req'.key = ADMIN_ACCESS_KEY
            /\ req'.next = UrlAdminPanel)
            => /\ session'.is_admin
               /\ resp' = Redirect(UrlAdminPanel)
        /\ (req'.handler = "admin_panel" /\ session.is_admin)
            => resp' = Page("admin_panel.html")
      ]_vars

\* The panel was rendered for a session holding the flag.
C4_Witness ==
    /\ req.handler = "admin_panel"
    /\ session.is_admin
    /\ resp = Page("admin_panel.html")

\* =====================================================================
\* Properties of SpecChapters

\* The id of the series a slug names.
SeriesId(slug) == (CHOOSE s \in SeriesBySlug(series, slug) : TRUE).id

InChapter(r, sid, n) == r.series_id = sid /\ r.chapter_number = n

\* C5: delete_chapter(slug, n) on an existing series with at least one page
\* row of chapter n removes every page row of (series, n) and no other page
\* row, and every file it deletes lies under the static asset root: the file
\* a page row names outside that root stays.
C5_DeleteChapter ==
    [][ \A sl \in Slugs, n \in ChapterNumbers :
          (/\ req'.handler = "delete_chapter"
           /\ req'.path = UrlDeleteChapter(sl, n)
           /\ SeriesBySlug(series, sl) # {}
           /\ \E r \in DOMAIN chapters : InChapter(r, SeriesId(sl), n))
          => /\ \A r \in DOMAIN chapters' : ~InChapter(r, SeriesId(sl), n)
             /\ \A r \in DOMAIN chapters :
                   ~InChapter(r, SeriesId(sl), n)
                   => r \in DOMAIN chapters' /\ chapters'[r] = chapters[r]
             /\ \A f \in files \ files' : UnderStaticRoot(f)
             /\ \A r \in DOMAIN chapters :
                   LET f == Abspath(LStripSep(r.image_path))
                   IN  (f \in files /\ ~UnderStaticRoot(f)) => f \in files'
      ]_vars

\* The file of page 1 of chapter 1 of the climbing slug, which lies outside
\* the static root.
ClimbingPageFile == Abspath(PageSavePath(ClimbingSlug, 1, 1, <<".", "p", "n", "g">>))

\* Chapter 1 of the climbing slug was deleted: its rows are gone, its file
\* outside the static root is still there, and the rows of another chapter
\* are still in the table.
C5_Witness ==
    /\ req.handler = "delete_chapter"
    /\ req.path = UrlDeleteChapter(ClimbingSlug, 1)
    /\ resp = RedirectMsg(UrlAdminPanel, "Deleted chapter.")
    /\ ~UnderStaticRoot(ClimbingPageFile)
    /\ ClimbingPageFile \in files
    /\ chapters # EmptyBag

\* C7 (as claimed): read_chapter(slug, n) answers not-found when the series
\* does not exist or chapter n has no page row; otherwise it returns all page
\* rows of (series, n), each page_number strictly greater than the one before.
C7_ReadChapterStrict ==
    \A sl \in Slugs, n \in ChapterNumbers :
        (req.handler = "read_chapter" /\ req.path = UrlReadChapter(sl, n))
        => IF \/ SeriesBySlug(series, sl) = {}
              \/ ChapterRows(chapters, SeriesId(sl), n) = EmptyBag
           THEN resp.status = 404
           ELSE /\ resp.status = 200
                /\ Len(resp.pages) = BagCardinality(ChapterRows(chapters, SeriesId(sl), n))
                /\ \A i \in 1..Len(resp.pages) : InChapter(resp.pages[i], SeriesId(sl), n)
                /\ \A i \in 1..(Len(resp.pages) - 1) :
                      resp.pages[i].page_number < resp.pages[i + 1].page_number

\* The rows of the chapters table that share a (series, chapter, page) key
\* with r, r included, counted with their multiplicity.
SameKeyCount(r) ==
    LET Same(x) == /\ x.series_id = r.series_id
                   /\ x.chapter_number = r.chapter_number
                   /\ x.page_number = r.page_number
    IN  BagCardinality(BagKeep(chapters, Same))

\* C8 (as claimed): no two page rows share (series_id, chapter_number,
\* page_number), and the page numbers of a chapter with k rows are 1..k.
C8_PageKeysUnique ==
    \A r \in DOMAIN chapters :
        /\ SameKeyCount(r) = 1
        /\ LET rows == ChapterRows(chapters, r.series_id, r.chapter_number)
           IN  {x.page_number : x \in DOMAIN rows} = 1..BagCardinality(rows)

\* ---------------------------------------------------------------------
\* SpecBookmarks: bookmark toggles of two registered users, as whole
\* requests (on either series) and as concurrent requests interleaved
\* statement by statement (on one series), after both series were added and
\* both users registered.
AliceName == <<"a", "l", "i", "c", "e">>
BobName == <<"b", "o", "b">>
Alice == [id |-> 1, username |-> AliceName, password |-> "alice-pw", role |-> "user"]
Bob == [id |-> 2, username |-> BobName, password |-> "bob-pw", role |-> "user"]

\* The credentials submitted: each user's own, and a wrong password.
Logins == {<<AliceName, "alice-pw">>, <<BobName, "bob-pw">>, <<AliceName, "bob-pw">>}

InitBookmarks ==
    /\ users = {Alice, Bob}
    /\ series = SeriesInsert(SeriesInsert({}, PlainSlug, CoverDbPath(PlainSlug, PngName)),
                             ClimbingSlug, CoverDbPath(ClimbingSlug, PngName))
    /\ chapters = EmptyBag
    /\ bookmarks = EmptyBag
    /\ files = SaveFile(SaveFile({}, CoverSavePath(PlainSlug, PngName)),
                        CoverSavePath(ClimbingSlug, PngName))
    /\ session = NoSession
    /\ req = NoReq
    /\ resp = NoResp
    /\ proc = [p \in Procs |-> Idle]
    /\ dbLock = 0

NextBookmarks ==
    \/ \E c \in Logins : user_login("POST", c[1], c[2], <<>>)
    \/ user_logout
    \/ \E sl \in Slugs : toggle_bookmark(sl, <<>>)
    \/ \E p \in Procs : ToggleCheck(p, PlainSlug, <<>>)
    \/ \E p \in Procs : ToggleExecute(p)
    \/ \E p \in Procs : ToggleCommit(p)

SpecBookmarks == InitBookmarks /\ [][NextBookmarks]_vars

\* =====================================================================
\* Properties of SpecBookmarks

\* The (user, series) pairs the bookmarks table holds.
BookmarkPairs(tbl) == DOMAIN tbl

UserIds == {u.id : u \in users}
SeriesIds == {s.id : s \in series}

\* C1: from every reachable bookmarks table, for every user and every
\* existing series, two toggles in a row leave the set of (user, series)
\* pairs as it was before the first.
C1_ToggleTwice ==
    \A u \in UserIds, sid \in SeriesIds :
        BookmarkPairs(ToggleRows(ToggleRows(bookmarks, u, sid), u, sid))
            = BookmarkPairs(bookmarks)

\* A user has toggled a bookmark on while another series is not bookmarked
\* by that user: toggling twice from here covers both the delete-then-insert
\* and the insert-then-delete order.
C1_Witness ==
    /\ req.handler = "toggle_bookmark"
    /\ resp.status = 302 /\ resp.location = UrlIndex
    /\ \E u \in UserIds, s1 \in SeriesIds, s2 \in SeriesIds :
          /\ BookmarkExists(bookmarks, u, s1)
          /\ ~BookmarkExists(bookmarks, u, s2)

\* C2 (as claimed): the bookmarks table holds at most one row per
\* (user_id, series_id), also when toggle requests interleave.
C2_OneRowPerPair == \A r \in DOMAIN bookmarks : bookmarks[r] <= 1

\* ---------------------------------------------------------------------
\* SpecCovers: concurrent add_series and set_cover requests for one slug,
\* interleaved step by step, in an admin session on an empty store.
InitCovers ==
    /\ users = {}
    /\ series = {}
    /\ chapters = EmptyBag
    /\ bookmarks = EmptyBag
    /\ files = {}
    /\ session = [NoSession EXCEPT !.is_admin = TRUE]
    /\ req = NoReq
    /\ resp = NoResp
    /\ proc = [p \in Procs |-> Idle]
    /\ dbLock = 0

CoverImages == {PngName, GifName}

NextCovers ==
    \/ \E p \in Procs, f \in CoverImages : AddSeriesCheck(p, PlainSlug, f)
    \/ \E p \in Procs : AddSeriesSave(p)
    \/ \E p \in Procs : AddSeriesInsert(p)
    \/ \E p \in Procs : AddSeriesCommit(p)
    \/ \E p \in Procs : AddSeriesFailed(p)
    \/ \E p \in Procs, f \in CoverImages : SetCoverLookup(p, PlainSlug, f)
    \/ \E p \in Procs : SetCoverSave(p)
    \/ \E p \in Procs : SetCoverUpdate(p)
    \/ \E p \in Procs : SetCoverCommit(p)
    \/ \E p \in Procs : SetCoverRemoveOld(p)

SpecCovers == InitCovers /\ [][NextCovers]_vars

\* =====================================================================
\* Properties of SpecCovers

\* C10 (as claimed): each series row's cover_path is empty or names a file
\* that exists under the cover asset store, also while add_series and
\* set_cover requests for the same slug interleave.
C10_CoverFileExists ==
    \A r \in series :
        \/ r.cover_path = <<>>
        \/ LET f == Abspath(PathJoin(<<"static">>, r.cover_path))
           IN  /\ f \in files
               /\ IsPrefix(Abspath(COVER_FOLDER), f)


\* The cover file request p has saved or is about to save.
OwnCoverFile(p) == Abspath(CoverSavePath(proc[p].slug, proc[p].filename))

\* C6: add_series with the slug of an existing series fails with the
\* duplicate-slug error, inserts no series row and leaves no new cover file,
\* whether the pre-emptive lookup finds the duplicate (the request ends at
\* the lookup, before any file is saved) or the INSERT's uniqueness
\* constraint does (the saved file is removed again).
C6_DuplicateSlug ==
    [][ \A p \in Procs :
          \* a request goes past the lookup only for a slug no row has
          /\ (proc[p].pc = "idle" /\ proc'[p].pc = "add_save")
                => SeriesBySlug(series, proc'[p].slug) = {}
          \* a request that ends at the lookup ends with the error, and has
          \* changed neither rows nor files
          /\ (proc[p].pc = "idle" /\ proc' = proc /\ req'.handler = "add_series")
                => /\ resp' = SlugExistsError
                   /\ SeriesBySlug(series, PlainSlug) # {}
                   /\ series' = series /\ files' = files
          \* an INSERT for a slug some row has fails and inserts nothing
          /\ (/\ proc[p].pc = "add_insert" /\ proc'[p].pc # "add_insert"
              /\ SeriesBySlug(series, proc[p].slug) # {})
                => proc'[p].pc = "add_failed" /\ series' = series
          \* the failed request ends with the error, without a row and
          \* without its file on disk
          /\ (proc[p].pc = "add_failed" /\ proc'[p].pc = "idle")
                => /\ resp' = SlugExistsError
                   /\ series' = series
                   /\ files' \subseteq files
                   /\ OwnCoverFile(p) \notin files'
          \* a row is inserted only for a slug no row had
          /\ (proc[p].pc = "add_commit" /\ proc'[p].pc = "idle")
                => /\ SeriesBySlug(series, proc[p].slug) = {}
                   /\ Cardinality(series') = Cardinality(series) + 1
      ]_vars

\* A duplicate add_series found by the uniqueness constraint has ended: the
\* error was answered, one row holds the slug, no request is in flight, and
\* the file the failed request had saved is not on disk.
C6_Witness ==
    /\ req.handler = "add_series"
    /\ resp = SlugExistsError
    /\ Cardinality(SeriesBySlug(series, PlainSlug)) = 1
    /\ \A p \in Procs : proc[p] = Idle
    /\ Abspath(CoverSavePath(PlainSlug, req.uploads[1])) \notin files

\* ---------------------------------------------------------------------
\* SpecSort: upload_chapter and delete_chapter in turn on one chapter, the
\* upload over every pair of file names with a stem of up to MaxStem
\* characters and one of three extensions, and two names that begin with
\* U+00B2.
StemChars == {"a", "0", "1", "2"}

Stems == UNION {[1..k -> StemChars] : k \in 1..MaxStem}

SortExtensions == {<<".", "p", "n", "g">>, <<".", "G", "I", "F">>, <<".", "t", "x", "t">>}

Sup1Name == <<SuperscriptTwo, "1", ".", "p", "n", "g">>
Sup2Name == <<SuperscriptTwo, "2", ".", "p", "n", "g">>

SortNames == {st \o e : st \in Stems, e \in SortExtensions} \cup {Sup1Name, Sup2Name}

InitSort ==
    /\ users = {}
    /\ series = SeriesInsert({}, PlainSlug, CoverDbPath(PlainSlug, PngName))
    /\ chapters = EmptyBag
    /\ bookmarks = EmptyBag
    /\ files = SaveFile({}, CoverSavePath(PlainSlug, PngName))
    /\ session = [NoSession EXCEPT !.is_admin = TRUE]
    /\ req = NoReq
    /\ resp = NoResp
    /\ proc = [p \in Procs |-> Idle]
    /\ dbLock = 0

NextSort ==
    \/ /\ req.handler # "upload_chapter"
       /\ \E a \in SortNames, b \in SortNames : upload_chapter(PlainSlug, 1, <<b, a>>)
    \/ /\ req.handler = "upload_chapter"
       /\ delete_chapter(PlainSlug, 1)

SpecSort == InitSort /\ [][NextSort]_vars

\* =====================================================================
\* Properties of SpecSort

\* The page row upload_chapter stores for the image at position k of the
\* request it answered last.
StoredRow(k) ==
    [series_id |-> SeriesId(PlainSlug), chapter_number |-> 1,
     page_number |-> PageNumberOf(req.uploads, k),
     image_path |-> <<"">> \o PageSavePath(PlainSlug, 1, PageNumberOf(req.uploads, k),
                                           ImageExt(req.uploads[k]))]

\* The natural key of a file name: the lower-cased name split into
\* non-digit and digit runs, each digit run taken as a number.
NaturalKey(name) ==
    LET parts == ReSplitDigits(Lower(ReplaceBackslash(name)))
    IN  [i \in 1..Len(parts) |->
            IF i % 2 = 0 THEN [isnum |-> TRUE, num |-> IntOf(parts[i]), str |-> <<>>]
            ELSE [isnum |-> FALSE, num |-> 0, str |-> parts[i]]]

\* C9 (as claimed): upload_chapter numbers the pages in natural-sort order
\* of the file names, not in upload order: of any two uploaded images with
\* allowed extensions, the one with the smaller natural key gets the smaller
\* page number, and each image's row is stored under that number, so that b
\* then a alone gives a page 1 and b page 2.
C9_NaturalOrder ==
    (req.handler = "upload_chapter")
    => LET up == req.uploads
           Allowed(k) == ImageExt(up[k]) \in ALLOWED_IMAGE_EXTENSIONS
           page == [k \in 1..Len(up) |-> PageNumberOf(up, k)]
       IN  /\ \A i \in 1..Len(up), j \in 1..Len(up) :
                 (/\ Allowed(i) /\ Allowed(j)
                  /\ KeyLess(NaturalKey(up[i]), NaturalKey(up[j])))
                 => 1 <= page[i] /\ page[i] < page[j]
           /\ \A k \in 1..Len(up) : Allowed(k) => StoredRow(k) \in DOMAIN chapters

\* Every upload the sort does not fail on numbers its pages in natural-sort
\* order of the file names: of two uploaded images with allowed extensions,
\* the one with the smaller key gets the smaller page number, and each
\* image's row is stored under that number; 10.png then 2.png alone gives
\* 2.png page 1 and 10.png page 2.
NaturalOrderUnlessSortRaises ==
    (req.handler = "upload_chapter" /\ ~SortRaises(req.uploads))
    => LET up == req.uploads
           Allowed(k) == ImageExt(up[k]) \in ALLOWED_IMAGE_EXTENSIONS
           page == [k \in 1..Len(up) |-> PageNumberOf(up, k)]
       IN  /\ resp.status = IF \E k \in 1..Len(up) : Allowed(k) THEN 302 ELSE 400
           /\ \A i \in 1..Len(up), j \in 1..Len(up) :
                 (/\ Allowed(i) /\ Allowed(j)
                  /\ KeyLess(_natural_sort_key(up[i]), _natural_sort_key(up[j])))
                 => 1 <= page[i] /\ page[i] < page[j]
           /\ \A k \in 1..Len(up) : Allowed(k) => StoredRow(k) \in DOMAIN chapters
           /\ \A k \in 1..Len(up) : NaturalKey(up[k]) = _natural_sort_key(up[k])
           /\ up = <<Page10Name, Page2Name>> => page[1] = 2 /\ page[2] = 1

\* 10.png was uploaded before 2.GIF: 2.GIF is stored as page 1 and 10.png as
\* page 2.
SortedUploadStored ==
    /\ req.handler = "upload_chapter"
    /\ resp.status = 302
    /\ req.uploads = <<Page10Name, <<"2", ".", "G", "I", "F">> >>
    /\ \E r \in DOMAIN chapters :
          r.page_number = 1 /\ r.image_path = <<"", "static", "uploads", "a_ch1_1.gif">>
    /\ \E r \in DOMAIN chapters :
          r.page_number = 2 /\ r.image_path = <<"", "static", "uploads", "a_ch1_2.png">>

\* ---------------------------------------------------------------------
\* SpecAccounts: registration, login and logout of users, the admin key
\* form and bookmark toggles, one request at a time, each with a next value
\* in the query string, in the form, in both or in neither; one series was
\* added, no user is registered.

\* The user names typed: two that register, one of them with a blank before
\* it, and one that is too short.
TypedNames == {AliceName, <<" ">> \o BobName, <<"b", "o">>}

\* The password and its confirmation in a registration form.
RegisterPasswords ==
    {<<"alice-pw", "alice-pw">>, <<"bob-pw", "bob-pw">>, <<"alice-pw", "bob-pw">>,
     <<"pw", "pw">>, <<"", "">>}

LoginPasswords == {"alice-pw", "bob-pw"}

\* The next value of the query string and of the form.
NextPairs ==
    {<< <<>>, <<>> >>,
     << UrlAdminPanel, <<>> >>,
     << <<>>, <<"/", "/", "evil.example">> >>,
     << <<"/", "/", "evil.example">>, UrlAdminPanel >>,
     << UrlAdminPanel, <<"/", "/", "evil.example">> >>,
     << <<"evil.example">>, <<>> >>}

InitAccounts ==
    /\ users = {}
    /\ series = SeriesInsert({}, PlainSlug, CoverDbPath(PlainSlug, PngName))
    /\ chapters = EmptyBag
    /\ bookmarks = EmptyBag
    /\ files = SaveFile({}, CoverSavePath(PlainSlug, PngName))
    /\ session = NoSession
    /\ req = NoReq
    /\ resp = NoResp
    /\ proc = [p \in Procs |-> Idle]
    /\ dbLock = 0

NextAccounts ==
    \/ \E nx \in NextPaths : user_register("GET", <<>>, "", "", ArgsThenForm(nx, <<>>))
    \/ \E n \in TypedNames, pw \in RegisterPasswords, nx \in NextPairs :
          user_register("POST", n, pw[1], pw[2], ArgsThenForm(nx[1], nx[2]))
    \/ \E nx \in NextPaths : user_login("GET", <<>>, "", ArgsThenForm(nx, <<>>))
    \/ \E n \in TypedNames, pw \in LoginPasswords, nx \in NextPairs :
          user_login("POST", n, pw, ArgsThenForm(nx[1], nx[2]))
    \/ user_logout
    \/ \E nx \in NextPaths : admin_access("GET", ArgsThenForm(nx, <<>>), "")
    \/ \E k \in AccessKeys, nx \in NextPairs :
          admin_access("POST", ArgsThenForm(nx[1], nx[2]), k)
    \/ admin_logout
    \/ \E nx \in NextPairs : toggle_bookmark(PlainSlug, FormThenArgs(nx[2], nx[1]))

SpecAccounts == InitAccounts /\ [][NextAccounts]_vars

\* =====================================================================
\* Properties of SpecAccounts

\* The path starts with "/" and not with "//".
SingleLeadingSlash(path) ==
    /\ path # <<>>
    /\ path[1] = "/"
    /\ (Len(path) = 1 \/ path[2] # "/")

\* The request handled last was a login, a registration, an admin key
\* submission or a bookmark toggle, and it succeeded with a redirect (the
\* redirect of the login gate, which carries a next of its own, is none).
SucceededWithRedirect ==
    /\ req.handler \in {"user_login", "user_register", "admin_access", "toggle_bookmark"}
    /\ resp.status = 302
    /\ resp.next = <<>>

\* C11: every redirect after a successful login, registration, admin key
\* submission or bookmark toggle goes to a path that starts with "/" and not
\* with "//": to the supplied next value when it is such a path, and to the
\* handler's default page (the admin panel for the admin key form, the index
\* for the others) when it is missing or is no such path.
C11_SafeRedirect ==
    SucceededWithRedirect
    => /\ SingleLeadingSlash(resp.location)
       /\ resp.location = IF SingleLeadingSlash(req.next) THEN req.next
                           ELSE IF req.handler = "admin_access" THEN UrlAdminPanel
                           ELSE UrlIndex

\* A registration that supplied //evil.example as next succeeded and was
\* redirected to the index.
C11_Witness ==
    /\ req.handler = "user_register"
    /\ req.next = <<"/", "/", "evil.example">>
    /\ session.user_id # 0
    /\ resp = Redirect(UrlIndex)

\* The user name a form looks up or registers: the name typed, without the
\* blanks around it.
SubmittedName == Strip(req'.username)

\* The rows of the users table before the request that match the submitted
\* user name and password.
MatchingUsers == {u \in users : u.username = SubmittedName /\ u.password = req'.key}

\* C12: the session's user id is set only by a login, to the id of the row
\* that has the submitted user name and whose stored password equals the
\* submitted one, or by a successful registration, to the id of the row it
\* created; a failed login and a registration of a used user name set no
\* session user id and insert no row; user names stay unique; every row a
\* registration creates has role "user".
C12_SessionUser ==
    [][ /\ (session'.user_id # session.user_id /\ session'.user_id # 0)
            => \/ /\ req'.handler = "user_login" /\ req'.method = "POST"
                  /\ users' = users
                  /\ \E u \in MatchingUsers : session'.user_id = u.id
               \/ /\ req'.handler = "user_register" /\ req'.method = "POST"
                  /\ \E u \in users' \ users :
                        /\ users' = users \cup {u}
                        /\ u.username = SubmittedName /\ u.password = req'.key
                        /\ session'.user_id = u.id
        /\ (req'.handler \in {"user_login", "user_register"} /\ resp'.status = 302)
            => \E u \in users' :
                  /\ u.username = SubmittedName /\ u.password = req'.key
                  /\ session'.user_id = u.id
                  /\ session'.user_username = u.username
                  /\ session'.user_role = u.role
        /\ (req'.handler = "user_login" /\ MatchingUsers = {})
            => session' = session /\ users' = users /\ resp'.status # 302
        /\ (req'.handler = "user_register" /\ UserByName(users, SubmittedName) # {})
            => session' = session /\ users' = users /\ resp'.status # 302
        /\ \A u \in users', v \in users' : u.username = v.username => u = v
        /\ \A u \in users' \ users : u.role = "user" /\ req'.handler = "user_register"
      ]_vars

\* With two users registered and nobody logged in, a registration of a used
\* user name, typed with a blank before it, was answered with the error.
C12_Witness ==
    /\ req.handler = "user_register"
    /\ req.username = <<" ">> \o BobName
    /\ resp = Page("user_register.html: Username already exists.")
    /\ Cardinality(users) = 2
    /\ \E u \in users : u.username = BobName
    /\ session.user_id = 0

====
